---- MODULE Spec2Model ----
(***************************************************************************)
(* denodrivers/sqlite3: the overflow-aware column extractor (src/fast.c)   *)
(* and the benchmark driver (src/bench/bench.c).                           *)
(*                                                                         *)
(* The two files are separate programs: SpecFast is the extractor as a     *)
(* caller drives it, SpecBench the benchmark process.  Each specification  *)
(* leaves the other program's variables at their initial values.           *)
(*                                                                         *)
(* A sqlite3_int64 is a tuple of four 16-bit limbs, least significant      *)
(* first, in two's complement: <<0, 32768, 0, 0>> is 2147483648.  An int   *)
(* (32 bits) is an integer in -2147483648 .. 2147483647.                   *)
(***************************************************************************)
EXTENDS Integers, Sequences, FiniteSets, TLC

VARIABLES
    \* ---- src/fast.c ----
    iflagptr,     \* char* iflagptr: a flag location, or NULL
    outintptr,    \* sqlite3_int64* outintptr: a value location, or NULL
    flagMem,      \* contents of the caller-owned flag locations
    intMem,       \* contents of the caller-owned 64-bit value locations
    ret,          \* what the last sqlite3_column_int_fast call returned
    nullWrite,    \* a store through a null target happened (process is dead)
    last,         \* the most recent call: its name, the column value read,
                  \* and the content of the flag target before the call
    expected,     \* history: content of the value target when it was
                  \* configured, replaced by each overflowing value since
    oldflagptr,   \* history: the flag target the last fastconfig replaced
    oldintptr,    \* history: the value target the last fastconfig replaced
    cfgArgs,      \* history: the arguments of the last fastconfig call
    \* ---- src/bench/bench.c ----
    pc,           \* position of the benchmark process
    args,         \* atoi(argv[1]), atoi(argv[2])
    total,        \* int total
    count,        \* int count
    i,            \* loop variable of bench()
    stmt,         \* the statement handle: "none", "prepared", "finalized"
    db,           \* the connection: "none", "open", "closed"
    val,          \* what the last get_version call returned
    calls,        \* the last engine calls, oldest first (at most TailLen)
    n,            \* how many times each engine primitive was called
    lines,        \* timing lines printed
    firstFail,    \* history: index of the first step that returned no row
    nUaf          \* history: steps made on a finalized statement handle

fastVars  == <<iflagptr, outintptr, flagMem, intMem, ret, nullWrite, last,
               expected, oldflagptr, oldintptr, cfgArgs>>
benchVars == <<pc, args, total, count, i, stmt, db, val, calls, n, lines,
               firstFail, nUaf>>
vars      == <<fastVars, benchVars>>

-----------------------------------------------------------------------------
(* 64-bit and 32-bit integers                                              *)

LimbBase == 2^16
LimbTop  == 2^15

\* 64-bit signed values the column may hold, by name
I64_Zero      == <<0, 0, 0, 0>>
I64_100       == <<100, 0, 0, 0>>
I64_Int32Max  == <<65535, 32767, 0, 0>>          \*  2147483647
I64_P2_31     == <<0, 32768, 0, 0>>              \*  2147483648
I64_P2_32     == <<0, 0, 1, 0>>                  \*  4294967296
I64_Max       == <<65535, 65535, 65535, 32767>>  \*  9223372036854775807
I64_MinusOne  == <<65535, 65535, 65535, 65535>>  \* -1
I64_Int32Min  == <<0, 32768, 65535, 65535>>      \* -2147483648
I64_BelowMin  == <<65535, 32767, 65535, 65535>>  \* -2147483649
I64_MinusP2_32 == <<0, 0, 65535, 65535>>         \* -4294967296
I64_Min       == <<0, 0, 0, 32768>>              \* -9223372036854775808

ColumnValues ==
    {I64_Zero, I64_100, I64_Int32Max, I64_P2_31, I64_P2_32, I64_Max,
     I64_MinusOne, I64_Int32Min, I64_BelowMin,
     I64_MinusP2_32, I64_Min}

IsNeg64(a) == a[4] >= LimbTop

\* a < b on signed 64-bit values
Less64(a, b) ==
    IF IsNeg64(a) # IsNeg64(b) THEN IsNeg64(a)
    ELSE \E k \in 1..4 : /\ a[k] < b[k]
                         /\ \A j \in (k+1)..4 : a[j] = b[j]

\* the constant 0x7fffffff, promoted to sqlite3_int64 by the comparison
INT32_MAX_64 == <<65535, 32767, 0, 0>>

\* mutant: compares against 0xffffffff
OverflowsU32(i64) == Less64(<<65535, 65535, 0, 0>>, i64)

\* mutant: >= instead of >
OverflowsGe(i64) == ~Less64(i64, INT32_MAX_64)

\* i64 > 0x7fffffff
Overflows(i64) == Less64(INT32_MAX_64, i64)

\* mutant: saturates instead of wrapping
NarrowSat(i64) ==
    IF IsNeg64(i64)
    THEN IF i64[4] = 65535 /\ i64[3] = 65535 /\ i64[2] >= LimbTop
         THEN (i64[2] - LimbBase) * LimbBase + i64[1]
         ELSE -2147483647 - 1
    ELSE IF i64[4] = 0 /\ i64[3] = 0 /\ i64[2] < LimbTop
         THEN i64[2] * LimbBase + i64[1]
         ELSE 2147483647

\* (int)i64: the low 32 bits, read as signed
Narrow(i64) ==
    IF i64[2] >= LimbTop
    THEN (i64[2] - LimbBase) * LimbBase + i64[1]
    ELSE i64[2] * LimbBase + i64[1]

-----------------------------------------------------------------------------
(* src/fast.c                                                              *)

NULL     == "NULL"
FlagLocs == {"flagA", "flagB"}
IntLocs  == {"outA", "outB"}

\* what a caller's locations may hold before the extractor writes them
FlagGarbage == {0, 85}
IntGarbage  == {<<4660, 22136, 4660, 22136>>}

\* a function that falls off its end returns whatever the register holds
Indeterminate(i64) == {Narrow(i64), 0, -1}

NoCall == [op |-> "none", v |-> I64_Zero, flagBefore |-> 0]

InitFast ==
    /\ iflagptr = NULL
    /\ outintptr = NULL
    /\ flagMem \in [FlagLocs -> FlagGarbage]
    /\ intMem \in [IntLocs -> IntGarbage]
    /\ ret = 0
    /\ nullWrite = FALSE
    /\ last = NoCall
    /\ expected = I64_Zero
    /\ oldflagptr = NULL
    /\ oldintptr = NULL
    /\ cfgArgs = <<NULL, NULL>>

\* mutant: forgets to replace the value target
fastconfigFlagOnly(flag, outint) ==
    /\ ~nullWrite
    /\ iflagptr' = flag
    /\ outintptr' = outintptr
    /\ oldflagptr' = iflagptr
    /\ oldintptr' = outintptr
    /\ cfgArgs' = <<flag, outint>>
    /\ expected' = IF outintptr = NULL THEN I64_Zero ELSE intMem[outintptr]
    /\ last' = [op |-> "fastconfig", v |-> I64_Zero, flagBefore |-> 0]
    /\ UNCHANGED <<flagMem, intMem, ret, nullWrite>>

fastconfig(flag, outint) ==
    /\ ~nullWrite
    /\ iflagptr' = flag
    /\ outintptr' = outint
    /\ oldflagptr' = iflagptr
    /\ oldintptr' = outintptr
    /\ cfgArgs' = <<flag, outint>>
    /\ expected' = IF outint = NULL THEN I64_Zero ELSE intMem[outint]
    /\ last' = [op |-> "fastconfig", v |-> I64_Zero, flagBefore |-> 0]
    /\ UNCHANGED <<flagMem, intMem, ret, nullWrite>>

\* mutant: skips the stores when a target is null
OverflowBranchChecked(i64) ==
    IF iflagptr = NULL \/ outintptr = NULL
    THEN /\ ret' \in Indeterminate(i64)
         /\ UNCHANGED <<flagMem, intMem, nullWrite, expected>>
    ELSE /\ flagMem' = [flagMem EXCEPT ![iflagptr] = 1]
         /\ intMem' = [intMem EXCEPT ![outintptr] = i64]
         /\ expected' = i64
         /\ ret' \in Indeterminate(i64)
         /\ UNCHANGED nullWrite

\* *iflagptr = 1; *outintptr = i64; and no return statement
OverflowBranch(i64) ==
    IF iflagptr = NULL
    THEN /\ nullWrite' = TRUE
         /\ UNCHANGED <<flagMem, intMem, ret, expected>>
    ELSE /\ flagMem' = [flagMem EXCEPT ![iflagptr] = 1]
         /\ IF outintptr = NULL
            THEN /\ nullWrite' = TRUE
                 /\ UNCHANGED <<intMem, ret, expected>>
            ELSE /\ intMem' = [intMem EXCEPT ![outintptr] = i64]
                 /\ expected' = i64
                 /\ ret' \in Indeterminate(i64)
                 /\ UNCHANGED nullWrite

\* mutant: stores the value on this path too
FitsBranchStores(i64) ==
    IF iflagptr = NULL
    THEN /\ nullWrite' = TRUE
         /\ UNCHANGED <<flagMem, intMem, ret, expected>>
    ELSE /\ flagMem' = [flagMem EXCEPT ![iflagptr] = 0]
         /\ intMem' = IF outintptr = NULL THEN intMem
                      ELSE [intMem EXCEPT ![outintptr] = i64]
         /\ ret' = Narrow(i64)
         /\ UNCHANGED <<nullWrite, expected>>

\* *iflagptr = 0; return (int)i64;
FitsBranch(i64) ==
    IF iflagptr = NULL
    THEN /\ nullWrite' = TRUE
         /\ UNCHANGED <<flagMem, intMem, ret, expected>>
    ELSE /\ flagMem' = [flagMem EXCEPT ![iflagptr] = 0]
         /\ ret' = Narrow(i64)
         /\ UNCHANGED <<intMem, nullWrite, expected>>

\* i64 is what sqlite3_column_int64(pStmt, iCol) returns
sqlite3_column_int_fast(i64) ==
    /\ ~nullWrite
    /\ IF Overflows(i64) THEN OverflowBranch(i64) ELSE FitsBranch(i64)
    /\ last' = [op |-> "extract", v |-> i64,
                flagBefore |-> IF iflagptr = NULL THEN 0 ELSE flagMem[iflagptr]]
    /\ UNCHANGED <<iflagptr, outintptr, oldflagptr, oldintptr, cfgArgs>>

Configure ==
    /\ \E flag \in FlagLocs \cup {NULL}, outint \in IntLocs \cup {NULL} :
          fastconfig(flag, outint)
    /\ UNCHANGED benchVars

Extract ==
    /\ \E i64 \in ColumnValues : sqlite3_column_int_fast(i64)
    /\ UNCHANGED benchVars

NextFast == Configure \/ Extract

-----------------------------------------------------------------------------
(* src/bench/bench.c                                                       *)

DefaultTotal == 5
DefaultCount == 1000000

\* bounds on the command-line arguments, on how far below zero `total` is
\* followed, and on how many engine calls `calls` remembers
MaxTotal == 2
MaxCount == 3
MaxWrap  == 2
TailLen  == 4

Primitives == {"initialize", "open_v2", "prepare_v2", "exec", "step",
               "column_int", "reset", "finalize", "close", "shutdown"}

\* the column value of a returned row (user_version, set to 100 by an exec
\* whose result is ignored)
RowValues == {0, 100}

LastN(s, k) == IF Len(s) <= k THEN s ELSE SubSeq(s, Len(s) - k + 1, Len(s))

Occurrences(cs, c) == Cardinality({k \in 1..Len(cs) : cs[k] = c})

\* the engine calls cs are made, in order
Record(cs) ==
    /\ calls' = LastN(calls \o cs, TailLen)
    /\ n' = [c \in Primitives |-> n[c] + Occurrences(cs, c)]

\* the process was started with two arguments (argc = 3), so that both
\* globals are overwritten; args holds what atoi made of them
InitBench ==
    /\ pc = "main"
    /\ args \in (-1..MaxTotal) \X (-1..MaxCount)
    /\ total = DefaultTotal
    /\ count = DefaultCount
    /\ i = 0
    /\ stmt = "none"
    /\ db = "none"
    /\ val = 0
    /\ calls = <<>>
    /\ n = [c \in Primitives |-> 0]
    /\ lines = 0
    /\ firstFail = 0
    /\ nUaf = 0

\* the benchmark process is not running
BenchIdle ==
    /\ pc = "main"
    /\ args = <<0, 0>>
    /\ total = DefaultTotal
    /\ count = DefaultCount
    /\ i = 0
    /\ stmt = "none"
    /\ db = "none"
    /\ val = 0
    /\ calls = <<>>
    /\ n = [c \in Primitives |-> 0]
    /\ lines = 0
    /\ firstFail = 0
    /\ nUaf = 0

\* no caller drives the extractor
FastIdle ==
    /\ iflagptr = NULL
    /\ outintptr = NULL
    /\ flagMem = [l \in FlagLocs |-> 0]
    /\ intMem = [l \in IntLocs |-> I64_Zero]
    /\ ret = 0
    /\ nullWrite = FALSE
    /\ last = NoCall
    /\ expected = I64_Zero
    /\ oldflagptr = NULL
    /\ oldintptr = NULL
    /\ cfgArgs = <<NULL, NULL>>

\* main, up to the loop: the setup calls' results are ignored and taken to
\* succeed
MainSetup ==
    /\ pc = "main"
    /\ total' = args[1]
    /\ count' = args[2]
    /\ Record(<<"initialize", "open_v2", "prepare_v2",
                "exec", "exec", "exec", "exec">>)
    /\ db' = "open"
    /\ stmt' = "prepared"
    /\ pc' = "while"
    /\ UNCHANGED <<args, i, val, lines, firstFail, nUaf, fastVars>>

\* while (total--) bench(stmt);  a negative total is followed down to
\* -MaxWrap only
MainWhile ==
    /\ pc = "while"
    /\ total > -MaxWrap
    /\ total' = total - 1
    /\ IF total # 0
       THEN pc' = "bench" /\ i' = 0
       ELSE pc' = "teardown" /\ i' = i
    /\ UNCHANGED <<args, count, stmt, db, val, calls, n, lines, firstFail,
                   nUaf, fastVars>>

\* what sqlite3_step may do: on a finalized handle it reads freed memory
StepResults == IF stmt = "finalized" THEN {"row", "norow", "crash"}
               ELSE {"row", "norow"}

\* mutant: does not finalize when no row is returned
get_versionNoFinalize(r) ==
    /\ firstFail' = IF firstFail = 0 /\ r = "norow" THEN n["step"] + 1
                    ELSE firstFail
    /\ nUaf' = IF stmt = "finalized" THEN nUaf + 1 ELSE nUaf
    /\ CASE r = "row" ->
              /\ Record(<<"step", "column_int", "reset">>)
              /\ val' \in RowValues
              /\ UNCHANGED <<stmt, pc>>
         [] r = "norow" ->
              /\ Record(<<"step">>)
              /\ val' = 0
              /\ UNCHANGED <<stmt, pc>>
         [] r = "crash" ->
              /\ Record(<<"step">>)
              /\ pc' = "crashed"
              /\ UNCHANGED <<stmt, val>>

\* r is what sqlite3_step does
get_version(r) ==
    /\ firstFail' = IF firstFail = 0 /\ r = "norow" THEN n["step"] + 1
                    ELSE firstFail
    /\ nUaf' = IF stmt = "finalized" THEN nUaf + 1 ELSE nUaf
    /\ CASE r = "row" ->
              /\ Record(<<"step", "column_int", "reset">>)
              /\ val' \in RowValues
              /\ UNCHANGED <<stmt, pc>>
         [] r = "norow" ->
              /\ Record(<<"step", "finalize">>)
              /\ stmt' = "finalized"
              /\ val' = 0
              /\ UNCHANGED pc
         [] r = "crash" ->
              /\ Record(<<"step">>)
              /\ pc' = "crashed"
              /\ UNCHANGED <<stmt, val>>

\* mutant: off by one
LoopCondLe == i <= count

\* i < count
LoopCond == i < count

\* for (...; i < count; i++) get_version(stmt);
BenchIter ==
    /\ pc = "bench"
    /\ LoopCond
    /\ \E r \in StepResults : get_version(r)
    /\ i' = i + 1
    /\ UNCHANGED <<args, total, count, db, lines, fastVars>>

\* the loop is over: printf
BenchPrint ==
    /\ pc = "bench"
    /\ ~LoopCond
    /\ lines' = lines + 1
    /\ pc' = "while"
    /\ UNCHANGED <<args, total, count, i, stmt, db, val, calls, n,
                   firstFail, nUaf, fastVars>>

\* sqlite3_finalize(stmt); sqlite3_close(db); sqlite3_shutdown();
\* finalizing a handle get_version already finalized frees it twice
MainTeardown ==
    /\ pc = "teardown"
    /\ \/ /\ Record(<<"finalize", "close", "shutdown">>)
          /\ stmt' = "finalized"
          /\ db' = "closed"
          /\ pc' = "done"
       \/ /\ stmt = "finalized"
          /\ Record(<<"finalize">>)
          /\ pc' = "crashed"
          /\ UNCHANGED <<stmt, db>>
    /\ UNCHANGED <<args, total, count, i, val, lines, firstFail, nUaf,
                   fastVars>>

NextBench == MainSetup \/ MainWhile \/ BenchIter \/ BenchPrint \/ MainTeardown

-----------------------------------------------------------------------------
(* Specifications                                                          *)

\* the extractor, driven by a caller
InitFastOnly == InitFast /\ BenchIdle

SpecFast == InitFastOnly /\ [][NextFast]_vars

\* the benchmark process
InitBenchOnly == InitBench /\ FastIdle

SpecBench == InitBenchOnly /\ [][NextBench]_vars

\* the benchmark is one sequential process: it takes its next step
FairSpecBench == SpecBench /\ WF_vars(NextBench)

-----------------------------------------------------------------------------
(* Properties of the extractor, checked under SpecFast                     *)

\* the column values by their place relative to the 32-bit range
AboveInt32 == {I64_P2_31, I64_P2_32, I64_Max}
NonNegFit  == {I64_Zero, I64_100, I64_Int32Max}
NegFit     == {I64_MinusOne, I64_Int32Min}
BelowInt32 == {I64_BelowMin, I64_MinusP2_32, I64_Min}

\* the 64-bit value of an int (sign extension)
ToI64(k) ==
    <<k % LimbBase, (k \div LimbBase) % LimbBase,
      IF k < 0 THEN 65535 ELSE 0, IF k < 0 THEN 65535 ELSE 0>>

Extracted == last.op = "extract"
Configured == iflagptr # NULL /\ outintptr # NULL

\* C1: with both targets configured, an extract of a value above 2147483647
\* leaves 1 in the flag target and exactly that value in the value target,
\* whatever they held before.
C1_OverflowStored ==
    (Extracted /\ last.v \in AboveInt32 /\ Configured) =>
        /\ ~nullWrite
        /\ flagMem[iflagptr] = 1
        /\ intMem[outintptr] = last.v

C1_Witness ==
    /\ Extracted /\ Configured
    /\ last.v = I64_P2_31
    /\ last.flagBefore = 85
    /\ flagMem[iflagptr] = 1
    /\ intMem[outintptr] = I64_P2_31

\* C2: an extract of a value in 0 .. 2147483647 leaves 0 in the flag target
\* and returns the value, also at 2147483647 and when the flag held 1.
C2_FitsReturned ==
    (Extracted /\ last.v \in NonNegFit /\ iflagptr # NULL) =>
        /\ ~nullWrite
        /\ flagMem[iflagptr] = 0
        /\ ToI64(ret) = last.v

C2_Witness ==
    /\ Extracted /\ iflagptr # NULL
    /\ last.v = I64_Int32Max
    /\ last.flagBefore = 1
    /\ flagMem[iflagptr] = 0
    /\ ret = 2147483647

\* C3: an extract of a negative value leaves 0 in the flag target and
\* returns the value modulo 2^32 read as signed: the value itself from
\* -2147483648 to -1, something else below -2147483648.
C3_NegativeNarrowed ==
    (Extracted /\ IsNeg64(last.v) /\ iflagptr # NULL) =>
        /\ ~nullWrite
        /\ flagMem[iflagptr] = 0
        /\ ToI64(ret)[1] = last.v[1]
        /\ ToI64(ret)[2] = last.v[2]
        /\ last.v \in NegFit => ToI64(ret) = last.v
        /\ last.v = I64_MinusOne => ret = -1
        /\ last.v \in BelowInt32 => ToI64(ret) # last.v

C3_Witness ==
    /\ Extracted /\ iflagptr # NULL
    /\ last.v = I64_BelowMin
    /\ flagMem[iflagptr] = 0
    /\ ret = 2147483647

\* what a caller that trusts the flag takes as the column's value
Recovered ==
    IF flagMem[iflagptr] = 1 THEN intMem[outintptr] ELSE ToI64(ret)

\* C4: after an extract with both targets configured, the value target (flag
\* 1) or the return value (flag 0) is exactly the column's 64-bit value.
C4_RecoversExactly ==
    (Extracted /\ Configured /\ ~nullWrite) => Recovered = last.v

\* C5: the value target holds the most recent overflowing value since it was
\* configured, or what it held then; an extract that does not overflow leaves
\* every value location as it was; every extract writes the flag target.
C5_Inv ==
    /\ outintptr # NULL => intMem[outintptr] = expected
    /\ (Extracted /\ iflagptr # NULL) =>
          flagMem[iflagptr] = IF last.v \in AboveInt32 THEN 1 ELSE 0

C5_Step ==
    (last'.op = "extract" /\ last'.v \notin AboveInt32) => intMem' = intMem

C5_ValueTargetFrame == []C5_Inv /\ [][C5_Step]_vars

C5_Witness ==
    /\ Extracted /\ Configured
    /\ last.v = I64_100
    /\ last.flagBefore = 1
    /\ flagMem[iflagptr] = 0
    /\ intMem[outintptr] = I64_Max
    /\ expected = I64_Max

\* C6: the targets in force are those of the last fastconfig call, and no
\* call, fastconfig included, changes a location other than them.
C6_Inv ==
    /\ iflagptr = cfgArgs[1]
    /\ outintptr = cfgArgs[2]
    /\ (Extracted /\ ~nullWrite /\ last.v \in AboveInt32) =>
          /\ flagMem[cfgArgs[1]] = 1
          /\ intMem[cfgArgs[2]] = last.v

C6_Step ==
    /\ \A l \in FlagLocs : l # cfgArgs'[1] => flagMem'[l] = flagMem[l]
    /\ \A l \in IntLocs : l # cfgArgs'[2] => intMem'[l] = intMem[l]
    /\ cfgArgs' # cfgArgs => (flagMem' = flagMem /\ intMem' = intMem)

C6_Reconfigure == []C6_Inv /\ [][C6_Step]_vars

C6_Witness ==
    /\ Extracted /\ Configured
    /\ oldflagptr \in FlagLocs \ {iflagptr}
    /\ oldintptr \in IntLocs \ {outintptr}
    /\ last.v = I64_P2_32
    /\ intMem[outintptr] = I64_P2_32
    /\ flagMem[iflagptr] = 1
    /\ intMem[oldintptr] = I64_Max
    /\ flagMem[oldflagptr] = 0

\* C10 as stated: the targets are null until the first fastconfig; an extract
\* with a null target writes through it; one with both configured does not.
C10_Original ==
    /\ last.op = "none" => (iflagptr = NULL /\ outintptr = NULL)
    /\ (Extracted /\ ~Configured) => nullWrite
    /\ (Extracted /\ Configured) => ~nullWrite

\* C10 amended: an extract writes through a null target exactly when the
\* flag target is null, or the value target is null and the value is above
\* 2147483647; extract never changes the targets.
C10_Inv ==
    /\ last.op = "none" => (iflagptr = NULL /\ outintptr = NULL)
    /\ Extracted =>
          (nullWrite <=> \/ iflagptr = NULL
                         \/ outintptr = NULL /\ last.v \in AboveInt32)

C10_Step ==
    last'.op = "extract" => (iflagptr' = iflagptr /\ outintptr' = outintptr)

C10_NullTargets == []C10_Inv /\ [][C10_Step]_vars

C10_Witness ==
    /\ Extracted
    /\ iflagptr # NULL
    /\ outintptr = NULL
    /\ last.v = I64_Int32Max
    /\ ~nullWrite
    /\ flagMem[iflagptr] = 0

-----------------------------------------------------------------------------
(* Properties of the benchmark driver                                      *)

T == args[1]
C == args[2]
AllRows == firstFail = 0
Cycles == n["step"]
WholeCycles == n["column_int"] = n["step"] /\ n["reset"] = n["step"]

\* C7, checked under FairSpecBench: with T >= 0, C >= 0 and every step
\* returning a row, each batch makes C step/column/reset cycles and prints
\* one line, nothing is finalized inside the loop, and the run ends with
\* T*C cycles and T lines.
C7_Inv ==
    (T >= 0 /\ C >= 0 /\ AllRows) =>
        /\ pc # "crashed"
        /\ WholeCycles
        /\ pc = "bench" => (i <= C /\ Cycles = lines * C + i)
        /\ pc \in {"while", "teardown"} => Cycles = lines * C
        /\ pc \in {"while", "bench", "teardown"} =>
              (n["finalize"] = 0 /\ stmt = "prepared")
        /\ pc = "teardown" => lines = T
        /\ pc = "done" =>
              (Cycles = T * C /\ lines = T /\ n["finalize"] = 1)

C7_Terminates == <>(pc = "done" \/ ~AllRows \/ T < 0 \/ C < 0)

C7_BenchCycles == []C7_Inv /\ C7_Terminates

C7_Witness ==
    /\ pc = "done"
    /\ T = 1 /\ C = 3
    /\ AllRows
    /\ Cycles = 3
    /\ n["reset"] = 3
    /\ lines = 1

\* C8, checked under SpecBench: a step that returns no row is followed by
\* finalize and a return of 0; the loop goes on regardless, so every later
\* step is made on the finalized handle.
C8_Inv ==
    /\ ~AllRows =>
          /\ stmt = "finalized"
          /\ n["finalize"] >= 1
          /\ nUaf = n["step"] - firstFail
    /\ (pc = "bench" /\ firstFail = n["step"] /\ ~AllRows) =>
          /\ val = 0
          /\ LastN(calls, 2) = <<"step", "finalize">>
    /\ (T >= 0 /\ C >= 0 /\ pc = "bench") => n["step"] = lines * C + i
    /\ (T >= 0 /\ C >= 0 /\ pc = "done") => n["step"] = T * C

C8_Step ==
    /\ (AllRows /\ ~AllRows') => (stmt = "prepared" /\ stmt' = "finalized")
    \* a step that returned no row: finalize, return 0, and the loop goes on
    /\ (/\ n'["step"] = n["step"] + 1
        /\ n'["column_int"] = n["column_int"]
        /\ pc' # "crashed") =>
          /\ n'["finalize"] = n["finalize"] + 1
          /\ stmt' = "finalized"
          /\ val' = 0
          /\ pc' = "bench"
          /\ i' = i + 1
    \* with the handle finalized and iterations left, the next step of the
    \* process is another sqlite3_step on it
    /\ (stmt = "finalized" /\ pc = "bench" /\ i < count) =>
          /\ n'["step"] = n["step"] + 1
          /\ nUaf' = nUaf + 1

C8_FinalizedReuse == []C8_Inv /\ [][C8_Step]_vars

C8_Witness ==
    /\ pc = "done"
    /\ T = 2 /\ C = 2
    /\ firstFail = 1
    /\ n["step"] = 4
    /\ nUaf = 3

\* C9: at the end of every run the statement was prepared once, and
\* finalize, close and shutdown were each called once, last and in that
\* order.
C9_Teardown ==
    pc = "done" =>
        /\ n["prepare_v2"] = 1
        /\ n["open_v2"] = 1
        /\ n["finalize"] = 1
        /\ n["close"] = 1
        /\ n["shutdown"] = 1
        /\ LastN(calls, 3) = <<"finalize", "close", "shutdown">>

====
